---- MODULE Spec2Model ----
(***************************************************************************)
(* Railway section scheduler (src/src/utils/railwayScheduler.ts).          *)
(*                                                                         *)
(* One behaviour of this module is one call                                *)
(*   rescheduleWithDisruption(trains, config, disruption)                  *)
(* stepped through its two optimizedSchedule runs ("before", "after").     *)
(* Each run is the greedy loop (one step per train) followed by the local  *)
(* improver (one step per examined adjacent pair).                         *)
(*                                                                         *)
(* The fields of the input (scheduledArrival, speed, sectionLength,        *)
(* timeHorizon, safetyHeadway, delayMinutes) are integers.  Every number   *)
(* the code computes from them (duration, actualArrival, delay, the        *)
(* next-free times, totalDelay, weightedDelay, utilization) is a           *)
(* JavaScript number, an IEEE-754 double, and is kept as a record whose     *)
(* field k tells its kind:                                                 *)
(*   [k |-> "int", i |-> n]            the integer n, negative or not      *)
(*   [k |-> "frac", s |-> sign, i |-> integer part, f |-> fraction]        *)
(*       a number that is no integer, of value                             *)
(*       s * (i + f[1]/2 + f[2]/4 + ...), with s in {1, -1}, i a natural   *)
(*       number and f the binary digits after the point, the last one 1:   *)
(*       7.5 is [k |-> "frac", s |-> 1, i |-> 7, f |-> <<1>>]              *)
(*   [k |-> "inf", s |-> sign]         Infinity and -Infinity              *)
(*   [k |-> "nan"]                     NaN                                 *)
(* Every double has one form: one that is an integer is never kept as a    *)
(* "frac".  The results of / * + - are rounded to 53 significant bits,     *)
(* ties to even, as the hardware does.  -0 and +0 are not told apart, as   *)
(* no operation of the scheduler tells them apart.  The operators are      *)
(* defined for magnitudes below 2^30 and for speeds and weights below      *)
(* 2^20, where no result overflows or is subnormal.                        *)
(***************************************************************************)
EXTENDS Integers, Sequences, FiniteSets, TLC

(***************************************************************************)
(* JavaScript numbers                                                      *)
(***************************************************************************)
\* The significant bits of a double.
Precision == 53

Abs(n) == IF n < 0 THEN 0 - n ELSE n

\* The double of an integer n.
Num(n) == [k |-> "int", i |-> n]

Zero == Num(0)

Infinity == [k |-> "inf", s |-> 1]

NegInfinity == [k |-> "inf", s |-> 0 - 1]

NaN == [k |-> "nan"]

\* The finite double s * (i + 0.f), f without trailing zeros.
Finite(s, i, f) ==
    IF f = <<>> THEN Num(s * i)
    ELSE [k |-> "frac", s |-> s, i |-> i, f |-> f]

IsNaN(a) == a.k = "nan"

\* The sign of a double that is not NaN; the sign of 0 is 1.
Sign(a) == IF a.k = "int" THEN IF a.i < 0 THEN 0 - 1 ELSE 1 ELSE a.s

\* The number of binary digits of the natural number n.
RECURSIVE BitLen(_)
BitLen(n) == IF n = 0 THEN 0 ELSE 1 + BitLen(n \div 2)

\* Digit j of the fraction f; the digits past its end are 0.
Bit(f, j) == IF j <= Len(f) THEN f[j] ELSE 0

\* The place of the last 1 of f, 0 when there is none.
LastSet(f) ==
    CHOOSE n \in 0 .. Len(f) :
        (n = 0 \/ f[n] = 1) /\ \A m \in (n + 1) .. Len(f) : f[m] = 0

Trim(f) == SubSeq(f, 1, LastSet(f))

\* The number of 0 digits f starts with.
LeadingZeros(f) ==
    CHOOSE z \in 0 .. Len(f) :
        (z = Len(f) \/ f[z + 1] = 1) /\ \A m \in 1 .. z : f[m] = 0

\* A magnitude i + 0.f, exact (any number of digits).
Mag(i, f) == [i |-> i, f |-> f]

\* The magnitude of a finite double.
MagOf(a) == IF a.k = "int" THEN Mag(Abs(a.i), <<>>) ELSE Mag(a.i, a.f)

MagLess(a, b) ==
    \/ a.i < b.i
    \/ /\ a.i = b.i
       /\ \E j \in 1 .. Len(b.f) :
             /\ Bit(a.f, j) < b.f[j]
             /\ \A m \in 1 .. (j - 1) : Bit(a.f, m) = b.f[m]

\* Exact arithmetic on fractions works on groups of DigitBits binary
\* digits, each group a number below Base.
DigitBits == 10

Base == 2^DigitBits

RECURSIVE GroupValue(_, _, _)
GroupValue(f, from, n) ==
    IF n > DigitBits THEN 0
    ELSE Bit(f, from + n) * 2^(DigitBits - n) + GroupValue(f, from, n + 1)

\* The fraction f cut into groups, the last one filled up with zeros.
GroupsOf(f) ==
    [g \in 1 .. ((Len(f) + DigitBits - 1) \div DigitBits) |->
        GroupValue(f, (g - 1) * DigitBits, 1)]

\* The binary digits of the groups d.
BitsOf(d) ==
    [j \in 1 .. (Len(d) * DigitBits) |->
        (d[(j - 1) \div DigitBits + 1]
            \div 2^(DigitBits - 1 - ((j - 1) % DigitBits))) % 2]

Group(d, g) == IF g <= Len(d) THEN d[g] ELSE 0

\* x + y over the groups g .. n: the carry, then the groups of the sum.
RECURSIVE AddGroups(_, _, _, _)
AddGroups(x, y, g, n) ==
    IF g > n THEN <<0>>
    ELSE LET r == AddGroups(x, y, g + 1, n)
             t == Group(x, g) + Group(y, g) + r[1]
         IN  <<t \div Base, t % Base>> \o Tail(r)

\* x - y over the groups g .. n: the borrow, then the groups of the
\* difference.
RECURSIVE SubGroups(_, _, _, _)
SubGroups(x, y, g, n) ==
    IF g > n THEN <<0>>
    ELSE LET r == SubGroups(x, y, g + 1, n)
             t == Group(x, g) - Group(y, g) - r[1]
         IN  <<IF t < 0 THEN 1 ELSE 0, t % Base>> \o Tail(r)

\* x * w over the groups g .. Len(x): the carry, then the groups of the
\* product.
RECURSIVE TimesGroups(_, _, _)
TimesGroups(x, w, g) ==
    IF g > Len(x) THEN <<0>>
    ELSE LET r == TimesGroups(x, w, g + 1)
             t == x[g] * w + r[1]
         IN  <<t \div Base, t % Base>> \o Tail(r)

MaxLen(x, y) == IF Len(x) > Len(y) THEN Len(x) ELSE Len(y)

\* a + b, exact.
MagAdd(a, b) ==
    LET x == GroupsOf(a.f)
        y == GroupsOf(b.f)
        r == AddGroups(x, y, 1, MaxLen(x, y))
    IN  Mag(a.i + b.i + r[1], BitsOf(Tail(r)))

\* a - b for a >= b, exact.
MagSub(a, b) ==
    LET x == GroupsOf(a.f)
        y == GroupsOf(b.f)
        r == SubGroups(x, y, 1, MaxLen(x, y))
    IN  Mag(a.i - b.i - r[1], BitsOf(Tail(r)))

\* a * w for a natural number w, exact.
MagTimes(a, w) ==
    LET r == TimesGroups(GroupsOf(a.f), w, 1)
    IN  Mag(a.i * w + r[1], BitsOf(Tail(r)))

\* The place of the last 0 among the first p digits of f, 0 when there is
\* none.
LastClear(f, p) ==
    CHOOSE z \in 0 .. p :
        (z = 0 \/ f[z] = 0) /\ \A m \in (z + 1) .. p : f[m] = 1

\* The double nearest to s * m, ties to even; sticky says that m stands for
\* a value slightly above the digits it holds.  Rounding up adds one unit
\* in place p: the 1s at the end become 0, the 0 before them becomes 1.
Round(s, m, sticky) ==
    LET p == IF m.i > 0 THEN Precision - BitLen(m.i)
                        ELSE LeadingZeros(m.f) + Precision
    IN  IF Len(m.f) <= p THEN Finite(s, m.i, Trim(m.f))
        ELSE LET rest == sticky \/ \E j \in (p + 2) .. Len(m.f) : m.f[j] = 1
                 up == m.f[p + 1] = 1 /\ (rest \/ m.f[p] = 1)
                 z == LastClear(m.f, p)
             IN  IF up
                 THEN Finite(s, IF z = 0 THEN m.i + 1 ELSE m.i,
                             [j \in 1 .. z |-> IF j = z THEN 1 ELSE m.f[j]])
                 ELSE Finite(s, m.i, Trim(SubSeq(m.f, 1, p)))

\* Long division produces QuotientDigits groups of the quotient, more than
\* Precision significant bits of every quotient of the domain.
QuotientDigits == 8

\* The first n groups of r / b for r < b, followed by the remainder.
RECURSIVE DivDigits(_, _, _)
DivDigits(r, b, n) ==
    IF n = 0 THEN <<r>>
    ELSE <<(r * Base) \div b>> \o DivDigits((r * Base) % b, b, n - 1)

\* a / b for integers a and b: x / 0 is +Infinity or -Infinity by the sign
\* of x, 0 / 0 is NaN, and a quotient that is an integer is exact.
Div(a, b) ==
    IF b = 0 THEN IF a = 0 THEN NaN ELSE IF a > 0 THEN Infinity ELSE NegInfinity
    ELSE LET s == IF (a < 0) = (b < 0) THEN 1 ELSE 0 - 1
             q == Abs(a) \div Abs(b)
             d == DivDigits(Abs(a) % Abs(b), Abs(b), QuotientDigits)
         IN  IF Abs(a) % Abs(b) = 0 THEN Num(s * q)
             ELSE Round(s, Mag(q, BitsOf(SubSeq(d, 1, QuotientDigits))),
                        d[QuotientDigits + 1] # 0)

\* a * w for a double a and an integer w.
Mul(a, w) ==
    IF a.k = "int" THEN Num(a.i * w)
    ELSE IF IsNaN(a) THEN NaN
    ELSE IF a.k = "inf"
         THEN IF w = 0 THEN NaN
              ELSE IF (a.s > 0) = (w > 0) THEN Infinity ELSE NegInfinity
    ELSE Round(IF w < 0 THEN 0 - a.s ELSE a.s, MagTimes(MagOf(a), Abs(w)), FALSE)

\* a < b for two doubles that are not NaN.
Less(a, b) ==
    IF a.k = "int" /\ b.k = "int" THEN a.i < b.i
    ELSE IF Sign(a) # Sign(b) THEN Sign(a) < Sign(b)
    ELSE LET x == IF Sign(a) = 1 THEN a ELSE b
             y == IF Sign(a) = 1 THEN b ELSE a
         IN  x.k # "inf" /\ (y.k = "inf" \/ MagLess(MagOf(x), MagOf(y)))

Add(a, b) ==
    IF a.k = "int" /\ b.k = "int" THEN Num(a.i + b.i)
    ELSE IF IsNaN(a) \/ IsNaN(b) THEN NaN
    ELSE IF a.k = "inf" THEN IF b.k = "inf" /\ a.s # b.s THEN NaN ELSE a
    ELSE IF b.k = "inf" THEN b
    ELSE IF Sign(a) = Sign(b) THEN Round(Sign(a), MagAdd(MagOf(a), MagOf(b)), FALSE)
    ELSE IF MagLess(MagOf(a), MagOf(b))
         THEN Round(Sign(b), MagSub(MagOf(b), MagOf(a)), FALSE)
    ELSE Round(Sign(a), MagSub(MagOf(a), MagOf(b)), FALSE)

Neg(a) ==
    IF a.k = "int" THEN Num(0 - a.i)
    ELSE IF IsNaN(a) THEN NaN
    ELSE [a EXCEPT !.s = 0 - @]

Sub(a, b) ==
    IF a.k = "int" /\ b.k = "int" THEN Num(a.i - b.i) ELSE Add(a, Neg(b))

MathMax(a, b) ==
    IF IsNaN(a) \/ IsNaN(b) THEN NaN ELSE IF Less(a, b) THEN b ELSE a

\* Comparisons: every comparison with NaN is false.
Lt(a, b) == ~IsNaN(a) /\ ~IsNaN(b) /\ Less(a, b)

Le(a, b) == ~IsNaN(a) /\ ~IsNaN(b) /\ ~Less(b, a)

Gt(a, b) == Lt(b, a)

\* a >= b, the comparison the properties are stated with.
Ge(a, b) == Le(b, a)

\* !x for a number x: 0 and NaN are falsy, everything else is truthy.
Truthy(a) == ~IsNaN(a) /\ a # Zero

(***************************************************************************)
(* src/src/types/railway.ts                                                *)
(***************************************************************************)
PRIORITY_WEIGHTS == [high |-> 3, medium |-> 2, low |-> 1]

Weight(train) == PRIORITY_WEIGHTS[train.priority]

(***************************************************************************)
(* Traversal model                                                         *)
(***************************************************************************)
\* Faulty variant of computeTraversalTime: the result has its sign reversed.
computeTraversalTimeNegated(sectionKm, speedKmh) ==
    Neg(Mul(Div(sectionKm, speedKmh), 60))

\* (sectionKm / speedKmh) * 60: the quotient is rounded to a double, then
\* the product is, so the result need not be the double nearest to
\* 60 * sectionKm / speedKmh (5 / 40 gives 7.5, 25 / 3 gives
\* 500.00000000000006).  A speed of 0 gives Infinity, -Infinity or NaN.
computeTraversalTime(sectionKm, speedKmh) ==
    Mul(Div(sectionKm, speedKmh), 60)

prepareTrainsData(trains, config) ==
    [n \in DOMAIN trains |->
        [id               |-> trains[n].id,
         scheduledArrival |-> trains[n].scheduledArrival,
         speed            |-> trains[n].speed,
         priority         |-> trains[n].priority,
         duration         |-> computeTraversalTime(config.sectionLength,
                                                   trains[n].speed)]]

\* trains.find(t => t.id === id): the first train with that id (callers
\* only look up ids that are present).
FindTrain(trains, id) ==
    trains[CHOOSE n \in DOMAIN trains :
              /\ trains[n].id = id
              /\ \A m \in DOMAIN trains : trains[m].id = id => n <= m]

HasTrain(trains, id) == \E n \in DOMAIN trains : trains[n].id = id

(***************************************************************************)
(* Greedy assigner                                                         *)
(***************************************************************************)
\* Faulty variant of CompareTrains: the priority weight is ignored.
CompareTrainsByArrival(a, b) == a.scheduledArrival - b.scheduledArrival

\* The comparator of the sort in greedySchedule: priority weight
\* descending, then scheduledArrival ascending.
CompareTrains(a, b) ==
    IF Weight(b) - Weight(a) # 0
    THEN Weight(b) - Weight(a)
    ELSE a.scheduledArrival - b.scheduledArrival

\* Array.prototype.sort is stable: t goes behind every element that does
\* not compare greater than it.
InsertTrain(sorted, t) ==
    LET p == Cardinality({n \in DOMAIN sorted : CompareTrains(sorted[n], t) <= 0})
    IN  SubSeq(sorted, 1, p) \o <<t>> \o SubSeq(sorted, p + 1, Len(sorted))

RECURSIVE SortTrains(_)
SortTrains(trains) ==
    IF Len(trains) = 0 THEN <<>>
    ELSE InsertTrain(SortTrains(SubSeq(trains, 1, Len(trains) - 1)),
                     trains[Len(trains)])

\* new Array(config.tracks).fill(0), indexed from 0.
InitialNextFree(config) == [t \in 0 .. (config.tracks - 1) |-> Num(0)]

\* tracksNextFree[t] as a number: a slot past the end of the array is
\* undefined, which Math.max turns into NaN.
NextFreeAt(nextFree, t) == IF t \in DOMAIN nextFree THEN nextFree[t] ELSE NaN

\* Faulty variant of ScanTracks: the horizon test of line 35 is missing, so
\* the earliest track is taken whether or not the train fits.
RECURSIVE ScanTracksNoHorizonCheck(_, _, _, _, _)
ScanTracksNoHorizonCheck(train, nextFree, config, t, best) ==
    IF t >= config.tracks THEN best
    ELSE LET startTime == MathMax(Num(train.scheduledArrival), NextFreeAt(nextFree, t))
         IN  ScanTracksNoHorizonCheck(train, nextFree, config, t + 1,
                IF Lt(startTime, best.bestStartTime)
                THEN [bestTrack |-> t, bestStartTime |-> startTime]
                ELSE best)

\* Faulty variant of ScanTracks: line 36 compares with <=, so of the tracks
\* with the same start time the last one is taken.
RECURSIVE ScanTracksLastOfEqual(_, _, _, _, _)
ScanTracksLastOfEqual(train, nextFree, config, t, best) ==
    IF t >= config.tracks THEN best
    ELSE LET startTime == MathMax(Num(train.scheduledArrival), NextFreeAt(nextFree, t))
         IN  ScanTracksLastOfEqual(train, nextFree, config, t + 1,
                IF /\ Le(Add(startTime, train.duration), Num(config.timeHorizon))
                   /\ Le(startTime, best.bestStartTime)
                THEN [bestTrack |-> t, bestStartTime |-> startTime]
                ELSE best)

\* The scan of lines 33-41 from track t on, with the best choice so far.
RECURSIVE ScanTracks(_, _, _, _, _)
ScanTracks(train, nextFree, config, t, best) ==
    IF t >= config.tracks THEN best
    ELSE LET startTime == MathMax(Num(train.scheduledArrival), NextFreeAt(nextFree, t))
         IN  ScanTracks(train, nextFree, config, t + 1,
                IF /\ Le(Add(startTime, train.duration), Num(config.timeHorizon))
                   /\ Lt(startTime, best.bestStartTime)
                THEN [bestTrack |-> t, bestStartTime |-> startTime]
                ELSE best)

\* Faulty variant of BestPlacement: the first candidate is track 0's
\* next-free time alone, without the Math.max against scheduledArrival.
BestPlacementIgnoringArrival(train, nextFree, config) ==
    ScanTracks(train, nextFree, config, 0,
               [bestTrack |-> 0, bestStartTime |-> NextFreeAt(nextFree, 0)])

\* Lines 29-41: the track and start time one train receives.
BestPlacement(train, nextFree, config) ==
    ScanTracks(train, nextFree, config, 0,
               [bestTrack     |-> 0,
                bestStartTime |-> MathMax(Num(train.scheduledArrival),
                                          NextFreeAt(nextFree, 0))])

\* Lines 43-50: the assignment pushed for the train.
MakeAssignment(train, best) ==
    [trainId       |-> train.id,
     trackId       |-> best.bestTrack,
     actualArrival |-> best.bestStartTime,
     delay         |-> MathMax(Num(0), Sub(best.bestStartTime,
                                           Num(train.scheduledArrival)))]

\* Faulty variant of AdvanceNextFree: the safety headway is not added.
AdvanceNextFreeNoHeadway(nextFree, train, best, config) ==
    [t \in DOMAIN nextFree \cup {best.bestTrack} |->
        IF t = best.bestTrack
        THEN Add(best.bestStartTime, train.duration)
        ELSE nextFree[t]]

\* Line 53: tracksNextFree[bestTrack] = bestStartTime + duration + headway
\* (writing slot 0 of an empty array creates it).
AdvanceNextFree(nextFree, train, best, config) ==
    [t \in DOMAIN nextFree \cup {best.bestTrack} |->
        IF t = best.bestTrack
        THEN Add(Add(best.bestStartTime, train.duration),
                 Num(config.safetyHeadway))
        ELSE nextFree[t]]

(***************************************************************************)
(* Metrics calculator                                                      *)
(***************************************************************************)
\* utilization[k] += d; a missing key reads undefined and becomes NaN.
AddUtilization(utilization, k, d) ==
    [t \in DOMAIN utilization \cup {k} |->
        IF t = k
        THEN (IF k \in DOMAIN utilization THEN Add(utilization[k], d) ELSE NaN)
        ELSE utilization[t]]

\* The body of the loop of lines 156-168 for one assignment.
AccumulateMetrics(acc, a, trains, config) ==
    IF ~HasTrain(trains, a.trainId) \/ ~Truthy(FindTrain(trains, a.trainId).duration)
    THEN acc
    ELSE LET train == FindTrain(trains, a.trainId)
         IN  [totalDelay    |-> Add(acc.totalDelay, a.delay),
              weightedDelay |-> Add(acc.weightedDelay, Mul(a.delay, Weight(train))),
              finished      |-> IF Le(Add(a.actualArrival, train.duration),
                                      Num(config.timeHorizon))
                                THEN acc.finished + 1 ELSE acc.finished,
              utilization   |-> AddUtilization(acc.utilization, a.trackId,
                                               train.duration)]

RECURSIVE MetricsOver(_, _, _, _)
MetricsOver(assignments, trains, config, n) ==
    IF n = 0
    THEN [totalDelay |-> Num(0), weightedDelay |-> Num(0), finished |-> 0,
          utilization |-> [t \in 0 .. (config.tracks - 1) |-> Num(0)]]
    ELSE AccumulateMetrics(MetricsOver(assignments, trains, config, n - 1),
                           assignments[n], trains, config)

computeScheduleMetrics(assignments, trains, config) ==
    LET acc == MetricsOver(assignments, trains, config, Len(assignments))
    IN  [assignments   |-> assignments,
         totalDelay    |-> acc.totalDelay,
         weightedDelay |-> acc.weightedDelay,
         finished      |-> acc.finished,
         utilization   |-> acc.utilization]

(***************************************************************************)
(* Local improver                                                          *)
(***************************************************************************)
maxIterations == 10

\* The comparator a.actualArrival - b.actualArrival as it orders a and b:
\* TRUE when a does not compare greater than b, that is, when the
\* difference is not above 0 (a NaN difference counts as 0).
ArrivalNotAfter(a, b) == ~Gt(Sub(a.actualArrival, b.actualArrival), Num(0))

InsertAssignment(sorted, a) ==
    LET p == Cardinality({n \in DOMAIN sorted : ArrivalNotAfter(sorted[n], a)})
    IN  SubSeq(sorted, 1, p) \o <<a>> \o SubSeq(sorted, p + 1, Len(sorted))

RECURSIVE SortByArrival(_)
SortByArrival(s) ==
    IF Len(s) = 0 THEN <<>>
    ELSE InsertAssignment(SortByArrival(SubSeq(s, 1, Len(s) - 1)), s[Len(s)])

\* Lines 82-84: the assignments of one track, ordered by actualArrival.
TrackAssignments(assignments, t) ==
    SortByArrival(SelectSeq(assignments, LAMBDA a : a.trackId = t))

\* Lines 122-123.
NewTime1(a1, a2, trains) ==
    MathMax(Num(FindTrain(trains, a1.trainId).scheduledArrival), a2.actualArrival)
NewTime2(a1, a2, trains) ==
    MathMax(Num(FindTrain(trains, a2.trainId).scheduledArrival), a1.actualArrival)

\* Lines 119-129: trySwapTrains returns null.
SwapRefused(a1, a2, trains, config) ==
    LET train1 == FindTrain(trains, a1.trainId)
        train2 == FindTrain(trains, a2.trainId)
        newTime1 == NewTime1(a1, a2, trains)
        newTime2 == NewTime2(a1, a2, trains)
    IN  \/ ~Truthy(train1.duration) \/ ~Truthy(train2.duration)
        \/ Gt(Add(Add(newTime1, train1.duration), Num(config.safetyHeadway)),
              newTime2)
        \/ Gt(Add(newTime2, train2.duration), Num(config.timeHorizon))

\* Lines 132-142: the assignments trySwapTrains returns when it does not
\* return null.
trySwapTrains(assignments, a1, a2, trains, config) ==
    LET train1 == FindTrain(trains, a1.trainId)
        train2 == FindTrain(trains, a2.trainId)
        newTime1 == NewTime1(a1, a2, trains)
        newTime2 == NewTime2(a1, a2, trains)
    IN  [n \in DOMAIN assignments |->
            IF assignments[n].trainId = a1.trainId
            THEN [assignments[n] EXCEPT
                    !.actualArrival = newTime1,
                    !.delay = MathMax(Num(0), Sub(newTime1,
                                                  Num(train1.scheduledArrival)))]
            ELSE IF assignments[n].trainId = a2.trainId
            THEN [assignments[n] EXCEPT
                    !.actualArrival = newTime2,
                    !.delay = MathMax(Num(0), Sub(newTime2,
                                                  Num(train2.scheduledArrival)))]
            ELSE assignments[n]]

\* Line 90: the later train of the pair has strictly higher priority.
SwapWanted(a1, a2, trains) ==
    Weight(FindTrain(trains, a2.trainId)) > Weight(FindTrain(trains, a1.trainId))

\* Faulty variant of SwapAccepted: the comparison of line 95 is reversed.
SwapAcceptedIfWorse(sched, assignments, a1, a2, trains, config) ==
    /\ SwapWanted(a1, a2, trains)
    /\ ~SwapRefused(a1, a2, trains, config)
    /\ Gt(computeScheduleMetrics(trySwapTrains(assignments, a1, a2, trains, config),
                                 trains, config).weightedDelay,
          sched.weightedDelay)

\* Lines 90-95: the swap of the pair is tried, feasible and strictly
\* better than the current schedule.
SwapAccepted(sched, assignments, a1, a2, trains, config) ==
    /\ SwapWanted(a1, a2, trains)
    /\ ~SwapRefused(a1, a2, trains, config)
    /\ Lt(computeScheduleMetrics(trySwapTrains(assignments, a1, a2, trains, config),
                                 trains, config).weightedDelay,
          sched.weightedDelay)

(***************************************************************************)
(* Disruptions                                                             *)
(***************************************************************************)
\* Faulty variant of applyDisruption: the train id is not compared, so a
\* delay moves every train.
applyDisruptionToAll(trains, d) ==
    [n \in DOMAIN trains |->
        IF /\ d.type = "delay"
           /\ "delayMinutes" \in DOMAIN d
           /\ Truthy(Num(d.delayMinutes))
        THEN [trains[n] EXCEPT !.scheduledArrival = @ + d.delayMinutes]
        ELSE trains[n]]

\* A disruption is a record with the field type and any of the optional
\* fields trainId, delayMinutes, trackId; an absent field is undefined.
applyDisruption(trains, d) ==
    [n \in DOMAIN trains |->
        IF /\ d.type = "delay"
           /\ "trainId" \in DOMAIN d
           /\ trains[n].id = d.trainId
           /\ "delayMinutes" \in DOMAIN d
           /\ Truthy(Num(d.delayMinutes))
        THEN [trains[n] EXCEPT !.scheduledArrival = @ + d.delayMinutes]
        ELSE trains[n]]

\* Faulty variant of BeforeTrains: the baseline run is given the disrupted
\* trains.
BeforeTrainsDisrupted(trains, config, d) ==
    prepareTrainsData(applyDisruption(trains, d), config)

\* Line 196.
BeforeTrains(trains, config, d) == prepareTrainsData(trains, config)

\* Line 199.
AfterTrains(trains, config, d) == prepareTrainsData(applyDisruption(trains, d), config)

\* Faulty variant of ModifiedConfig: a track is removed for every
\* block_track disruption, whether or not it names a track.
ModifiedConfigForAnyBlock(config, d) ==
    IF d.type = "block_track"
    THEN [config EXCEPT !.tracks = @ - 1]
    ELSE config

\* Faulty variant of ModifiedConfig: a track is removed only when the named
\* track id is one of the config's tracks.
ModifiedConfigIfTrackExists(config, d) ==
    IF d.type = "block_track" /\ "trackId" \in DOMAIN d /\ d.trackId < config.tracks
    THEN [config EXCEPT !.tracks = @ - 1]
    ELSE config

\* Lines 202-205.
ModifiedConfig(config, d) ==
    IF d.type = "block_track" /\ "trackId" \in DOMAIN d
    THEN [config EXCEPT !.tracks = @ - 1]
    ELSE config

(***************************************************************************)
(* The functions as a whole                                                *)
(*                                                                         *)
(* The same loops as the steps further down, run to completion; they give *)
(* the value of a call on arguments other than those of the current run.   *)
(***************************************************************************)
\* The loop of lines 26-54 from train n of the sorted list on.
RECURSIVE GreedyLoop(_, _, _, _, _)
GreedyLoop(sorted, n, nextFree, done, config) ==
    IF n > Len(sorted) THEN done
    ELSE IF ~Truthy(sorted[n].duration)
    THEN GreedyLoop(sorted, n + 1, nextFree, done, config)
    ELSE LET best == BestPlacement(sorted[n], nextFree, config)
         IN  GreedyLoop(sorted, n + 1,
                        AdvanceNextFree(nextFree, sorted[n], best, config),
                        Append(done, MakeAssignment(sorted[n], best)),
                        config)

greedySchedule(ts, config) ==
    computeScheduleMetrics(
        GreedyLoop(SortTrains(ts), 1, InitialNextFree(config), <<>>, config),
        ts, config)

\* Line 96: Object.assign(assignments, newAssignments) copies every index of
\* the source over the target, which keeps the indices the source lacks.
ObjectAssignKeepsTarget(target, source) == target

ObjectAssign(target, source) ==
    [n \in 1..Len(target) |-> IF n <= Len(source) THEN source[n] ELSE target[n]]

\* Faulty variant of ContinuePasses: the cap on the number of passes is
\* missing.
ContinuePassesWithoutCap(imp, n) == imp

\* Line 76: the condition of the while loop.

ContinuePasses(imp, n) == imp /\ n < maxIterations

\* The loop of lines 86-102 over the pairs of one track from pair n on;
\* the pairs come from the list gathered when the track was entered.
RECURSIVE ScanPairs(_, _, _, _, _)
ScanPairs(st, pairs, n, ts, config) ==
    IF n >= Len(pairs) - 1 THEN st
    ELSE ScanPairs(
            IF SwapAccepted(st.schedule, st.assignments, pairs[n + 1], pairs[n + 2],
                            ts, config)
            THEN LET new == trySwapTrains(st.assignments, pairs[n + 1], pairs[n + 2],
                                          ts, config)
                 IN  [schedule    |-> computeScheduleMetrics(new, ts, config),
                      assignments |-> ObjectAssign(st.assignments, new),
                      improved    |-> TRUE]
            ELSE st,
            pairs, n + 1, ts, config)

\* The loop of lines 81-103 from track t on.
RECURSIVE ScanAllTracks(_, _, _, _)
ScanAllTracks(st, t, ts, config) ==
    IF t >= config.tracks THEN st
    ELSE ScanAllTracks(
            ScanPairs(st, TrackAssignments(st.assignments, t), 0, ts, config),
            t + 1, ts, config)

\* The while loop of lines 76-104 after n passes.
RECURSIVE ImproveFrom(_, _, _, _)
ImproveFrom(st, n, ts, config) ==
    IF ContinuePasses(st.improved, n)
    THEN ImproveFrom(ScanAllTracks([st EXCEPT !.improved = FALSE], 0, ts, config),
                     n + 1, ts, config)
    ELSE st.schedule

applyLocalImprovements(sched, ts, config) ==
    ImproveFrom([schedule |-> sched, assignments |-> sched.assignments,
                 improved |-> TRUE],
                0, ts, config)

optimizedSchedule(ts, config) ==
    applyLocalImprovements(greedySchedule(ts, config), ts, config)

(***************************************************************************)
(* Inputs                                                                  *)
(***************************************************************************)
MaxTrains == 3

TrainIds == <<"T1", "T2", "T3", "T4", "T5">>

\* The trains a list is built from: three valid ones (speed > 0) of two
\* priorities and two arrival times, and three with a speed the traversal
\* model is not defined for (zero, negative).
ValidProfiles ==
    { [scheduledArrival |-> 0, speed |-> 30, priority |-> "high"],
      [scheduledArrival |-> 60, speed |-> 30, priority |-> "high"],
      [scheduledArrival |-> 0, speed |-> 60, priority |-> "medium"] }

InvalidProfiles ==
    { [scheduledArrival |-> 0, speed |-> 0 - 30, priority |-> "high"],
      [scheduledArrival |-> 0, speed |-> 0 - 30, priority |-> "low"],
      [scheduledArrival |-> 0, speed |-> 0, priority |-> "medium"] }

TrainProfiles == ValidProfiles \cup InvalidProfiles

\* Two lists one train longer than MaxTrains, on which the improver accepts
\* more than one swap: a high-priority train at speed 30 and trains with a
\* negative speed, of high priority but for a last or a first one that is
\* of low priority.
LongLists ==
    { [n \in 1 .. MaxTrains + 1 |->
         [id               |-> TrainIds[n],
          scheduledArrival |-> 0,
          speed            |-> IF n = first THEN 30 ELSE 0 - 30,
          priority         |-> IF n = first - 1 \/ (first = 1 /\ n = MaxTrains + 1)
                               THEN "low" ELSE "high"]] :
      first \in {1, 2} }

\* Every train list of up to MaxTrains trains with distinct ids, and the
\* long lists.
TrainLists ==
    UNION { { [n \in 1 .. len |->
                 [id               |-> TrainIds[n],
                  scheduledArrival |-> f[n].scheduledArrival,
                  speed            |-> f[n].speed,
                  priority         |-> f[n].priority]] :
              f \in [1 .. len -> TrainProfiles] } :
            len \in 0 .. MaxTrains }
    \cup LongLists

TrackCounts == {1, 2}
Headways == {0, 60}

\* maxTrainsPerTrack is read by no function of the scheduler and is left
\* out of the record.
Configs ==
    { [sectionLength |-> 60, timeHorizon |-> 240, tracks |-> n, safetyHeadway |-> h] :
        n \in TrackCounts, h \in Headways }
    \cup
    { [sectionLength |-> 0, timeHorizon |-> 240, tracks |-> 1, safetyHeadway |-> 60] }

Disruptions ==
    { [type |-> "delay", trainId |-> id, delayMinutes |-> 120] :
        id \in {"T1", "T2", "T9"} }
    \cup { [type |-> "delay", trainId |-> "T1", delayMinutes |-> 0] }
    \cup { [type |-> "block_track", trackId |-> k] : k \in {0, 1} }
    \cup { [type |-> "block_track", trainId |-> "T3", delayMinutes |-> 12] }

\* The dashboard's DEFAULT_CONFIG and DEFAULT_TRAINS (the length of a
\* train is read by no function of the scheduler and is left out).  Under
\* this config the durations of T2, T3 and five more trains are no
\* integers: 7.5 and 3.75 for T2 and T3.
DEFAULT_CONFIG ==
    [sectionLength |-> 5, timeHorizon |-> 180, tracks |-> 3, safetyHeadway |-> 3]

DEFAULT_TRAINS ==
    << [id |-> "T1", scheduledArrival |-> 5, speed |-> 60, priority |-> "high"],
       [id |-> "T2", scheduledArrival |-> 8, speed |-> 40, priority |-> "medium"],
       [id |-> "T3", scheduledArrival |-> 10, speed |-> 80, priority |-> "high"],
       [id |-> "T4", scheduledArrival |-> 12, speed |-> 50, priority |-> "low"],
       [id |-> "T5", scheduledArrival |-> 15, speed |-> 70, priority |-> "medium"],
       [id |-> "T6", scheduledArrival |-> 17, speed |-> 55, priority |-> "low"],
       [id |-> "T7", scheduledArrival |-> 22, speed |-> 90, priority |-> "high"],
       [id |-> "T8", scheduledArrival |-> 25, speed |-> 45, priority |-> "medium"],
       [id |-> "T9", scheduledArrival |-> 28, speed |-> 65, priority |-> "low"],
       [id |-> "T10", scheduledArrival |-> 35, speed |-> 75, priority |-> "medium"] >>

\* One track, headway 3, two trains of duration 10.
ExampleConfig ==
    [sectionLength |-> 5, timeHorizon |-> 180, tracks |-> 1, safetyHeadway |-> 3]

ExampleTrains ==
    << [id |-> "A", scheduledArrival |-> 0, speed |-> 30, priority |-> "high"],
       [id |-> "B", scheduledArrival |-> 5, speed |-> 30, priority |-> "medium"] >>

\* One track without headway.
SingleTrackConfig ==
    [sectionLength |-> 60, timeHorizon |-> 480, tracks |-> 1, safetyHeadway |-> 0]

\* Four trains of three priorities, three of them with a negative speed
\* (durations 120, -90, -120, -120): in one scan of the track the improver
\* accepts the swap of T4 and T3 and then the swap of T3 and T2.
StaleScanTrains ==
    << [id |-> "T1", scheduledArrival |-> 0, speed |-> 30, priority |-> "high"],
       [id |-> "T2", scheduledArrival |-> 0, speed |-> 0 - 40, priority |-> "high"],
       [id |-> "T3", scheduledArrival |-> 0, speed |-> 0 - 30, priority |-> "medium"],
       [id |-> "T4", scheduledArrival |-> 0, speed |-> 0 - 30, priority |-> "low"] >>

\* Nine trains (durations 180, -60, -90) on which the improver accepts a
\* swap in each of its first ten passes.
CapTrains ==
    << [id |-> "T1", scheduledArrival |-> 0, speed |-> 0 - 60, priority |-> "medium"],
       [id |-> "T2", scheduledArrival |-> 0, speed |-> 0 - 60, priority |-> "medium"],
       [id |-> "T3", scheduledArrival |-> 0, speed |-> 0 - 60, priority |-> "medium"],
       [id |-> "T4", scheduledArrival |-> 0, speed |-> 20, priority |-> "high"],
       [id |-> "T5", scheduledArrival |-> 0, speed |-> 0 - 40, priority |-> "low"],
       [id |-> "T6", scheduledArrival |-> 0, speed |-> 0 - 60, priority |-> "medium"],
       [id |-> "T7", scheduledArrival |-> 0, speed |-> 20, priority |-> "high"],
       [id |-> "T8", scheduledArrival |-> 0, speed |-> 0 - 40, priority |-> "high"],
       [id |-> "T9", scheduledArrival |-> 0, speed |-> 0 - 60, priority |-> "high"] >>

\* The calls: every train list under every config, the default trains T1 to
\* T3 (durations 5, 7.5, 3.75) and T5 to T7 (durations that are rounded:
\* 4.285714285714286, 5.454545454545455, 3.333333333333333) under the
\* default config, the example, and the two lists above on one track.
Calls ==
    (TrainLists \X Configs)
    \cup { <<SubSeq(DEFAULT_TRAINS, 1, 3), DEFAULT_CONFIG>>,
           <<SubSeq(DEFAULT_TRAINS, 5, 7), DEFAULT_CONFIG>>,
           <<ExampleTrains, ExampleConfig>>,
           <<StaleScanTrains, SingleTrackConfig>>,
           <<CapTrains, SingleTrackConfig>> }

NoSchedule ==
    [assignments |-> <<>>, totalDelay |-> Num(0), weightedDelay |-> Num(0),
     finished |-> 0,
     utilization |-> <<>>]

(***************************************************************************)
(* State                                                                   *)
(***************************************************************************)
VARIABLES
    trains, config, disruption,   \* the arguments of rescheduleWithDisruption
    pc,                           \* position in the call
    run,                          \* "before" or "after": the current run
    runTrains, runConfig,         \* the arguments of the current optimizedSchedule
    sortedTrains, next,           \* greedySchedule: sorted copy, index of the next train
    tracksNextFree, placed,       \* greedySchedule: tracksNextFree, assignments
    greedy,                       \* the schedule greedySchedule returned in this run
    schedule, assignments,        \* applyLocalImprovements: schedule, assignments
    improved, iterations,         \* applyLocalImprovements: improved, iterations
    trackId, i, trackAssignments, \* applyLocalImprovements: loop variables
    before, after                 \* beforeSchedule, afterSchedule

vars == <<trains, config, disruption, pc, run, runTrains, runConfig,
          sortedTrains, next, tracksNextFree, placed, greedy,
          schedule, assignments, improved, iterations,
          trackId, i, trackAssignments, before, after>>

inputVars == <<trains, config, disruption>>
greedyVars == <<sortedTrains, next, tracksNextFree, placed>>
improverVars == <<schedule, assignments, improved, iterations,
                  trackId, i, trackAssignments>>

Init ==
    /\ \E call \in Calls : trains = call[1] /\ config = call[2]
    /\ disruption \in Disruptions
    /\ pc = "start"
    /\ run = "before"
    /\ runTrains = <<>>
    /\ runConfig = config
    /\ sortedTrains = <<>>
    /\ next = 1
    /\ tracksNextFree = <<>>
    /\ placed = <<>>
    /\ greedy = NoSchedule
    /\ schedule = NoSchedule
    /\ assignments = <<>>
    /\ improved = FALSE
    /\ iterations = 0
    /\ trackId = 0
    /\ i = 0
    /\ trackAssignments = <<>>
    /\ before = NoSchedule
    /\ after = NoSchedule

(***************************************************************************)
(* Steps                                                                   *)
(***************************************************************************)
\* Faulty variant of EnterRun: tracksNextFree is created once and shared by
\* the calls, so the second call starts from what the first one left.
EnterRunSharingNextFree(r, ts, cfg) ==
    /\ run' = r
    /\ runTrains' = ts
    /\ runConfig' = cfg
    /\ sortedTrains' = SortTrains(ts)
    /\ next' = 1
    /\ tracksNextFree' = IF r = "before" THEN InitialNextFree(cfg) ELSE tracksNextFree
    /\ placed' = <<>>
    /\ pc' = "greedy"

\* optimizedSchedule(ts, cfg) is entered: greedySchedule sets up its loop
\* (lines 16-24).
EnterRun(r, ts, cfg) ==
    /\ run' = r
    /\ runTrains' = ts
    /\ runConfig' = cfg
    /\ sortedTrains' = SortTrains(ts)
    /\ next' = 1
    /\ tracksNextFree' = InitialNextFree(cfg)
    /\ placed' = <<>>
    /\ pc' = "greedy"

\* Lines 196-197: the baseline run starts.
StartBefore ==
    /\ pc = "start"
    /\ EnterRun("before", BeforeTrains(trains, config, disruption), config)
    /\ UNCHANGED <<inputVars, greedy, improverVars, before, after>>

\* Line 27: a train without a usable duration is passed over.
GreedySkip ==
    /\ pc = "greedy"
    /\ next <= Len(sortedTrains)
    /\ ~Truthy(sortedTrains[next].duration)
    /\ next' = next + 1
    /\ UNCHANGED <<inputVars, pc, run, runTrains, runConfig, sortedTrains,
                   tracksNextFree, placed, greedy, improverVars, before, after>>

\* Lines 29-53: the next train is placed.
GreedyPlace ==
    /\ pc = "greedy"
    /\ next <= Len(sortedTrains)
    /\ Truthy(sortedTrains[next].duration)
    /\ LET train == sortedTrains[next]
           best == BestPlacement(train, tracksNextFree, runConfig)
       IN  /\ placed' = Append(placed, MakeAssignment(train, best))
           /\ tracksNextFree' = AdvanceNextFree(tracksNextFree, train, best, runConfig)
    /\ next' = next + 1
    /\ UNCHANGED <<inputVars, pc, run, runTrains, runConfig, sortedTrains,
                   greedy, improverVars, before, after>>

\* Line 56, then lines 62-74: greedySchedule returns and
\* applyLocalImprovements is entered.
GreedyReturn ==
    /\ pc = "greedy"
    /\ next > Len(sortedTrains)
    /\ LET s == computeScheduleMetrics(placed, runTrains, runConfig)
       IN  /\ greedy' = s
           /\ schedule' = s
           /\ assignments' = s.assignments
    /\ improved' = TRUE
    /\ iterations' = 0
    /\ pc' = "while"
    /\ UNCHANGED <<inputVars, run, runTrains, runConfig, greedyVars,
                   trackId, i, trackAssignments, before, after>>

\* The for loop over tracks reaches track t: past the last track the pass
\* is over, otherwise the track's assignments are gathered (lines 81-86).
EnterTrack(t) ==
    /\ trackId' = t
    /\ i' = 0
    /\ IF t < runConfig.tracks
       THEN /\ trackAssignments' = TrackAssignments(assignments', t)
            /\ pc' = "pair"
       ELSE /\ trackAssignments' = trackAssignments
            /\ pc' = "while"

\* Lines 76-78: a pass begins.
BeginPass ==
    /\ pc = "while"
    /\ ContinuePasses(improved, iterations)
    /\ improved' = FALSE
    /\ iterations' = iterations + 1
    /\ assignments' = assignments
    /\ EnterTrack(0)
    /\ UNCHANGED <<inputVars, run, runTrains, runConfig, greedyVars, greedy,
                   schedule, before, after>>

\* Lines 86-101 for a pair whose swap is accepted (lines 96-98).
SwapAccept ==
    /\ pc = "pair"
    /\ i < Len(trackAssignments) - 1
    /\ LET a1 == trackAssignments[i + 1]
           a2 == trackAssignments[i + 2]
           newAssignments == trySwapTrains(assignments, a1, a2, runTrains, runConfig)
       IN  /\ SwapAccepted(schedule, assignments, a1, a2, runTrains, runConfig)
           /\ assignments' = ObjectAssign(assignments, newAssignments)
           /\ schedule' = computeScheduleMetrics(newAssignments, runTrains, runConfig)
    /\ improved' = TRUE
    /\ i' = i + 1
    /\ UNCHANGED <<inputVars, pc, run, runTrains, runConfig, greedyVars, greedy,
                   iterations, trackId, trackAssignments, before, after>>

\* Lines 86-101 for a pair that is left as it is.
SwapReject ==
    /\ pc = "pair"
    /\ i < Len(trackAssignments) - 1
    /\ ~SwapAccepted(schedule, assignments, trackAssignments[i + 1],
                     trackAssignments[i + 2], runTrains, runConfig)
    /\ i' = i + 1
    /\ UNCHANGED <<inputVars, pc, run, runTrains, runConfig, greedyVars, greedy,
                   schedule, assignments, improved, iterations, trackId,
                   trackAssignments, before, after>>

\* Line 86 fails: the scan moves to the next track.
NextTrack ==
    /\ pc = "pair"
    /\ i >= Len(trackAssignments) - 1
    /\ assignments' = assignments
    /\ EnterTrack(trackId + 1)
    /\ UNCHANGED <<inputVars, run, runTrains, runConfig, greedyVars, greedy,
                   schedule, improved, iterations, before, after>>

\* Line 106 of the baseline run, then lines 199-207: the disruption is
\* applied and the disrupted run starts.
ReturnBefore ==
    /\ pc = "while"
    /\ ~ContinuePasses(improved, iterations)
    /\ run = "before"
    /\ before' = schedule
    /\ EnterRun("after", AfterTrains(trains, config, disruption),
                ModifiedConfig(config, disruption))
    /\ UNCHANGED <<inputVars, greedy, improverVars, after>>

\* Line 106 of the disrupted run, then line 209.
ReturnAfter ==
    /\ pc = "while"
    /\ ~ContinuePasses(improved, iterations)
    /\ run = "after"
    /\ after' = schedule
    /\ pc' = "done"
    /\ UNCHANGED <<inputVars, run, runTrains, runConfig, greedyVars, greedy,
                   improverVars, before>>

Next ==
    \/ StartBefore
    \/ GreedySkip
    \/ GreedyPlace
    \/ GreedyReturn
    \/ BeginPass
    \/ SwapAccept
    \/ SwapReject
    \/ NextTrack
    \/ ReturnBefore
    \/ ReturnAfter

Spec == Init /\ [][Next]_vars

(***************************************************************************)
(* The steps and the functions agree                                       *)
(***************************************************************************)
GreedyReturned == pc \in {"while", "pair", "done"}

StepsMatchFunctions ==
    /\ GreedyReturned => greedy = greedySchedule(runTrains, runConfig)
    /\ pc = "done" => after = optimizedSchedule(runTrains, runConfig)

(***************************************************************************)
(* Properties                                                              *)
(***************************************************************************)
BeforeReturned == run = "after"
AfterReturned == pc = "done"

\* The inputs the data model allows: at least one track, a headway that
\* is not negative, and trains with a positive speed and an arrival time
\* that is not negative.
ValidConfig(cfg) == cfg.tracks >= 1 /\ cfg.safetyHeadway >= 0
ValidTrains(ts) ==
    \A n \in DOMAIN ts : ts[n].speed > 0 /\ ts[n].scheduledArrival >= 0
PositiveDurations(ts) ==
    \A n \in DOMAIN ts : ts[n].speed > 0 /\ Gt(ts[n].duration, Num(0))

DurationOf(ts, a) == FindTrain(ts, a.trainId).duration
Range(f) == {f[x] : x \in DOMAIN f}

AssignmentInRange(a, ts, cfg) ==
    LET train == FindTrain(ts, a.trainId)
    IN  /\ a.trackId \in 0 .. (cfg.tracks - 1)
        /\ Ge(a.actualArrival, Num(train.scheduledArrival))
        /\ a.delay = Sub(a.actualArrival, Num(train.scheduledArrival))
        /\ Ge(a.delay, Num(0))

ScheduleInRange(s, ts, cfg) ==
    (ValidConfig(cfg) /\ ValidTrains(ts)) =>
        \A a \in Range(s.assignments) : AssignmentInRange(a, ts, cfg)

\* C1: on valid input every assignment of a schedule returned by
\* scheduleGreedy or scheduleOptimized has its trackId in [0, tracks), an
\* actualArrival not before the train's scheduledArrival, and
\* delay = actualArrival - scheduledArrival >= 0.
C1_AssignmentsInRange ==
    /\ GreedyReturned => ScheduleInRange(greedy, runTrains, runConfig)
    /\ BeforeReturned => ScheduleInRange(before, prepareTrainsData(trains, config), config)
    /\ AfterReturned => ScheduleInRange(after, runTrains, runConfig)

\* A valid run has returned a schedule that uses the second track and
\* holds a delayed train.
C1_Witness ==
    /\ AfterReturned /\ ValidConfig(runConfig) /\ ValidTrains(runTrains)
    /\ \E a \in Range(after.assignments) : Gt(a.delay, Num(0))
    /\ \E a \in Range(after.assignments) : a.trackId = 1

NoOverlap(s, ts, cfg) ==
    (ValidConfig(cfg) /\ PositiveDurations(ts)) =>
        \A m, n \in DOMAIN s.assignments :
            LET a == s.assignments[m]
                b == s.assignments[n]
            IN  (m # n /\ a.trackId = b.trackId
                       /\ Le(a.actualArrival, b.actualArrival))
                => Le(Add(Add(a.actualArrival, DurationOf(ts, a)),
                          Num(cfg.safetyHeadway)),
                      b.actualArrival)

\* C2: with positive durations and a headway >= 0, two assignments of a
\* returned schedule that share a track are separated by the earlier
\* train's duration plus the headway, also when one of them was placed
\* by the best-effort fallback.
C2_NoOverlap ==
    /\ GreedyReturned => NoOverlap(greedy, runTrains, runConfig)
    /\ BeforeReturned => NoOverlap(before, prepareTrainsData(trains, config), config)
    /\ AfterReturned => NoOverlap(after, runTrains, runConfig)

\* A train placed past the horizon (best effort) follows another train on
\* its track.
C2_Witness ==
    /\ AfterReturned /\ ValidConfig(runConfig) /\ PositiveDurations(runTrains)
    /\ \E m, n \in DOMAIN after.assignments :
          LET a == after.assignments[m]
              b == after.assignments[n]
          IN  /\ m # n /\ a.trackId = b.trackId
              /\ Lt(a.actualArrival, b.actualArrival)
              /\ Gt(Add(b.actualArrival, DurationOf(runTrains, b)),
                    Num(runConfig.timeHorizon))

\* C3: for every train list and every config with at least one track, the
\* weightedDelay of the schedule scheduleOptimized returns is at most that
\* of the greedy schedule it started from, and no step of the improver
\* raises the weightedDelay of its current schedule.
C3_WeightedDelayMonotone ==
    /\ [](/\ (pc \in {"while", "pair"} /\ ValidConfig(runConfig))
                => Le(schedule.weightedDelay, greedy.weightedDelay)
          /\ (AfterReturned /\ ValidConfig(runConfig))
                => Le(after.weightedDelay, greedy.weightedDelay))
    /\ [][(pc \in {"while", "pair"} /\ ValidConfig(runConfig))
            => Le(schedule'.weightedDelay, schedule.weightedDelay)]_vars

\* The improver has accepted a swap: its schedule is strictly better than
\* the greedy one.
C3_Witness ==
    /\ pc \in {"while", "pair"} /\ ValidConfig(runConfig)
    /\ Lt(schedule.weightedDelay, greedy.weightedDelay)

HasUsableDuration(train) == Truthy(train.duration)

AssignmentsOf(s, id) == {n \in DOMAIN s.assignments : s.assignments[n].trainId = id}

\* No track can take the train within the horizon.
NoFeasibleTrack(train, nextFree, cfg) ==
    \A t \in 0 .. (cfg.tracks - 1) :
        ~Le(Add(MathMax(Num(train.scheduledArrival), NextFreeAt(nextFree, t)),
                train.duration),
            Num(cfg.timeHorizon))

\* C4: scheduleGreedy (config with at least one track) returns exactly one
\* assignment for every train that has a usable duration and none for the
\* others; a train no track can take within the horizon is put on track 0
\* at max(scheduledArrival, next-free time of track 0), ending after the
\* horizon.
C4_NeverDrops ==
    /\ []((GreedyReturned /\ ValidConfig(runConfig)) =>
            \A n \in DOMAIN runTrains :
                Cardinality(AssignmentsOf(greedy, runTrains[n].id))
                    = IF HasUsableDuration(runTrains[n]) THEN 1 ELSE 0)
    /\ [][(/\ pc = "greedy" /\ ValidConfig(runConfig)
           /\ Len(placed') = Len(placed) + 1
           /\ NoFeasibleTrack(sortedTrains[next], tracksNextFree, runConfig))
          => LET a == placed'[Len(placed')]
                 train == sortedTrains[next]
             IN  /\ a.trainId = train.id
                 /\ a.trackId = 0
                 /\ a.actualArrival
                      = MathMax(Num(train.scheduledArrival), tracksNextFree[0])
                 /\ ~Le(Add(a.actualArrival, train.duration),
                        Num(runConfig.timeHorizon))
         ]_vars

\* With two tracks, a greedy schedule holds a train on track 0 whose
\* occupancy ends after the horizon although track 1 is in use too.
C4_Witness ==
    /\ GreedyReturned /\ runConfig.tracks = 2
    /\ \E a, b \in Range(greedy.assignments) :
          /\ a.trackId = 0 /\ b.trackId = 1
          /\ Gt(a.actualArrival, Num(0))
          /\ ~Le(Add(a.actualArrival, DurationOf(runTrains, a)),
                 Num(runConfig.timeHorizon))

\* C5: a train whose speed is zero or negative appears in no assignment
\* of any schedule.
C5_NonPositiveSpeedExcluded ==
    GreedyReturned =>
        \A n \in DOMAIN runTrains :
            runTrains[n].speed <= 0 => AssignmentsOf(greedy, runTrains[n].id) = {}

\* The disruption is a delay that names a train (it changes nothing when
\* no train has the id or the minutes are 0).
IsDelay(d) == d.type = "delay" /\ "trainId" \in DOMAIN d /\ "delayMinutes" \in DOMAIN d

DelayedIndex == {n \in DOMAIN trains : IsDelay(disruption) /\ trains[n].id = disruption.trainId}

\* The assignments a schedule holds for a train, as a set of records.
Placement(s, id) == {s.assignments[n] : n \in AssignmentsOf(s, id)}

ValidCall == ValidConfig(config) /\ ValidTrains(trains)

\* C6 as stated: after a delay disruption, every train that was on a track
\* other than the delayed train's keeps its track and start time, and a
\* train on the delayed train's track keeps its track and starts no
\* earlier than before.
C6_OtherTracksUnaffected ==
    (AfterReturned /\ IsDelay(disruption) /\ ValidCall) =>
        \A x \in DelayedIndex : \A dx \in Placement(before, trains[x].id) :
            \A n \in DOMAIN trains :
                \A b \in Placement(before, trains[n].id) :
                    \A a \in Placement(after, trains[n].id) :
                        IF b.trackId # dx.trackId
                        THEN a.trackId = b.trackId /\ a.actualArrival = b.actualArrival
                        ELSE a.trackId = b.trackId
                             /\ Ge(a.actualArrival, b.actualArrival)

\* Train m is processed before train n by the greedy loop: higher priority
\* weight, or the same weight and an earlier scheduledArrival, or the same
\* of both and an earlier place in the list.
ProcessedBefore(m, n) ==
    \/ Weight(trains[m]) > Weight(trains[n])
    \/ /\ Weight(trains[m]) = Weight(trains[n])
       /\ \/ trains[m].scheduledArrival < trains[n].scheduledArrival
          \/ /\ trains[m].scheduledArrival = trains[n].scheduledArrival
             /\ m < n

\* C6 (amended): on valid input, after a delay disruption every train the
\* greedy loop processes before the delayed train has the same trackId,
\* actualArrival and delay in `after` as in `before`; when the delay names
\* no train, every train has.
C6_EarlierTrainsUnaffected ==
    (AfterReturned /\ IsDelay(disruption) /\ ValidCall) =>
        \A n \in DOMAIN trains :
            (\A x \in DelayedIndex : ProcessedBefore(n, x))
                => Placement(after, trains[n].id) = Placement(before, trains[n].id)

\* A delay was applied to a train that is not the first to be processed,
\* and a train other than the delayed one and its predecessors moved.
C6_Witness ==
    /\ AfterReturned /\ IsDelay(disruption) /\ ValidCall
    /\ \E x \in DelayedIndex :
          /\ \E n \in DOMAIN trains : ProcessedBefore(n, x)
          /\ \E n \in DOMAIN trains :
                /\ n # x /\ ~ProcessedBefore(n, x)
                /\ Placement(after, trains[n].id) # Placement(before, trains[n].id)

IsBlockWithTrack(d) == d.type = "block_track" /\ "trackId" \in DOMAIN d

\* C7: for a block-track disruption with a trackId, `after` is
\* scheduleOptimized of the unchanged prepared trains under the config with
\* one track less, whichever track id is named.
C7_BlockReducesTrackCount ==
    (AfterReturned /\ IsBlockWithTrack(disruption)) =>
        after = optimizedSchedule(prepareTrainsData(trains, config),
                                  [config EXCEPT !.tracks = config.tracks - 1])

\* Track 1 of two was blocked and the schedule changed.
C7_Witness ==
    /\ AfterReturned /\ IsBlockWithTrack(disruption)
    /\ disruption.trackId = 1 /\ config.tracks = 2
    /\ after # before

\* What C8 expects of train n after the disruption.
ExpectedDisrupted(n) ==
    IF n \in DelayedIndex
    THEN [trains[n] EXCEPT !.scheduledArrival = @ + disruption.delayMinutes]
    ELSE trains[n]

\* C8: applyDisruption returns a list of the same length and order in which
\* the trains with the named id have scheduledArrival increased by
\* delayMinutes and every other train is as it was; a delay naming no train
\* and a disruption that is no delay return the list unchanged.  The
\* disrupted run is given the result.
C8_DelayOnlyNamedTrain ==
    BeforeReturned =>
        LET out == applyDisruption(trains, disruption)
        IN  /\ Len(out) = Len(trains)
            /\ \A n \in DOMAIN trains : out[n] = ExpectedDisrupted(n)
            /\ (DelayedIndex = {} => out = trains)
            /\ runTrains = prepareTrainsData(out, config)

\* A delay of some minutes was applied to one of several trains.
C8_Witness ==
    /\ BeforeReturned /\ IsDelay(disruption) /\ disruption.delayMinutes > 0
    /\ DelayedIndex # {} /\ DelayedIndex # DOMAIN trains
    /\ \E x \in DelayedIndex :
          runTrains[x].scheduledArrival = trains[x].scheduledArrival + disruption.delayMinutes

RECURSIVE SumSeq(_)
SumSeq(q) == IF Len(q) = 0 THEN Num(0) ELSE Add(SumSeq(SubSeq(q, 1, Len(q) - 1)), q[Len(q)])

ClaimedWeight(priority) ==
    IF priority = "high" THEN 3 ELSE IF priority = "medium" THEN 2 ELSE 1

OnTrack(s, k) == SelectSeq(s.assignments, LAMBDA a : a.trackId = k)

AggregatesConsistent(s, ts, cfg) ==
    LET as == s.assignments
    IN  /\ s.totalDelay = SumSeq([n \in DOMAIN as |-> as[n].delay])
        /\ s.weightedDelay
             = SumSeq([n \in DOMAIN as |->
                         Mul(as[n].delay,
                             ClaimedWeight(FindTrain(ts, as[n].trainId).priority))])
        /\ s.finished
             = Cardinality({n \in DOMAIN as :
                              Le(Add(as[n].actualArrival, DurationOf(ts, as[n])),
                                 Num(cfg.timeHorizon))})
        /\ DOMAIN s.utilization = 0 .. (cfg.tracks - 1)
        /\ \A k \in 0 .. (cfg.tracks - 1) :
              s.utilization[k]
                = SumSeq([n \in DOMAIN OnTrack(s, k) |->
                            DurationOf(ts, OnTrack(s, k)[n])])

\* C9: every schedule returned by scheduleGreedy, scheduleOptimized and
\* rescheduleWithDisruption has totalDelay, weightedDelay and finished
\* equal to the sums over its assignments, and utilization with exactly the
\* keys 0..tracks-1, each the summed duration of the track's trains.
\* Stated for trains with a positive speed, where it already fails.
C9_AggregatesConsistent ==
    /\ (GreedyReturned /\ ValidTrains(runTrains))
          => AggregatesConsistent(greedy, runTrains, runConfig)
    /\ (BeforeReturned /\ ValidTrains(trains))
          => AggregatesConsistent(before, prepareTrainsData(trains, config), config)
    /\ (AfterReturned /\ ValidTrains(runTrains))
          => AggregatesConsistent(after, runTrains, runConfig)

\* C10: the `before` schedule is scheduleOptimized of the prepared input
\* trains under the input config, whatever the disruption is.
C10_BeforeIndependentOfDisruption ==
    AfterReturned =>
        before = optimizedSchedule(prepareTrainsData(trains, config), config)

\* A delay that changes the schedule was applied after the baseline run.
C10_Witness ==
    /\ AfterReturned /\ DelayedIndex # {} /\ disruption.delayMinutes > 0
    /\ before.assignments # <<>>
    /\ after.assignments # before.assignments

(***************************************************************************)
(* Termination of the improver                                             *)
(***************************************************************************)

\* The calls FairSpec starts from: every train list and config,
\* with a delay of the first train or a blocked track, the two disruptions
\* that change what the second run of the improver is given.
FairInit ==
    /\ Init
    /\ disruption \in { [type |-> "delay", trainId |-> "T1", delayMinutes |-> 120],
                        [type |-> "block_track", trackId |-> 0] }

\* A step of Next is possible in every state but the final one: each loop
\* either takes its next step or leaves, and line 209 ends the call.
NextEnabled == pc # "done"

\* rescheduleWithDisruption is synchronous and waits for nothing, so a step
\* that can be taken is taken. This is weak fairness of Next, WF_vars(Next),
\* with ENABLED <<Next>>_vars written out as NextEnabled.
FairSpec == FairInit /\ [][Next]_vars /\ ([]<>(~NextEnabled) \/ []<><<Next>>_vars)

ImproverRunning == pc \in {"while", "pair"}

\* C11: the improver always terminates: it performs at most 10 passes, the
\* tenth pass and a pass that accepted no swap are followed by the return
\* and not by another pass, and every run of the improver reaches its
\* return with a schedule.
C11_ImproverTerminates ==
    /\ [](iterations <= maxIterations)
    /\ [][(pc = "while" /\ (~improved \/ iterations = maxIterations))
            => /\ pc' \in {"greedy", "done"}
               /\ IF run = "before" THEN before' = schedule
                                    ELSE after' = schedule]_vars
    /\ (ImproverRunning /\ run = "before") ~> (run = "after")
    /\ (ImproverRunning /\ run = "after") ~> (pc = "done" /\ after = schedule)

\* The baseline run has accepted a swap in each of ten passes, the tenth
\* included, and has returned because of the cap: one more pass over the
\* schedule it returned would accept a swap.
C11_Witness ==
    /\ run = "after" /\ pc = "greedy" /\ next = 1
    /\ iterations = maxIterations /\ improved
    /\ before # greedy
    /\ applyLocalImprovements(before, prepareTrainsData(trains, config), config)
         # before

(***************************************************************************)
(* Idempotence of the improver                                             *)
(***************************************************************************)

\* The baseline run has just returned: the disrupted run has placed no
\* train yet and the improver's variables still hold the baseline's.
BeforeJustReturned == run = "after" /\ pc = "greedy" /\ next = 1

\* C12: applying the improver to a schedule that a run of the improver
\* returned after a pass without an accepted swap (so before the cap of 10
\* passes) returns that schedule: same assignments, same aggregates.
C12_ImproverIdempotent ==
    /\ (BeforeJustReturned /\ ~improved)
          => applyLocalImprovements(before, prepareTrainsData(trains, config),
                                    config) = before
    /\ (AfterReturned /\ ~improved)
          => applyLocalImprovements(after, runTrains, runConfig) = after

\* The baseline run accepted a swap, then made a pass without one, and
\* returned a schedule that differs from the greedy one.
C12_Witness ==
    /\ BeforeJustReturned /\ ~improved /\ iterations >= 2
    /\ before.assignments # <<>>
    /\ before # greedy

(***************************************************************************)
(* Determinism of the greedy scheduler                                     *)
(***************************************************************************)

\* greedySchedule has just returned: the improver has not begun a pass.
GreedyJustReturned == pc = "while" /\ iterations = 0 /\ improved

\* C13: scheduleGreedy is deterministic: what a call returns is a function
\* of its train list and config alone. Each of the two calls of a
\* behaviour, the second one made after the first has run, returns
\* greedySchedule of its own arguments, so two calls with the same
\* arguments return the same assignments and aggregates.
C13_GreedyDeterministic ==
    GreedyJustReturned => greedy = greedySchedule(runTrains, runConfig)

\* The second call was made with the arguments of the first, after the
\* first had delayed a train, and has returned.
C13_Witness ==
    /\ GreedyJustReturned /\ run = "after"
    /\ runTrains = prepareTrainsData(trains, config) /\ runConfig = config
    /\ Len(greedy.assignments) >= 2
    /\ Gt(greedy.totalDelay, Num(0))
    /\ Gt(before.totalDelay, Num(0))

(***************************************************************************)
(* The greedy choice                                                       *)
(***************************************************************************)

\* The start time the train would get on track t.
CandidateStart(train, nextFree, t) ==
    MathMax(Num(train.scheduledArrival), NextFreeAt(nextFree, t))

\* The tracks on which the train ends within the horizon.
FeasibleTracks(train, nextFree, cfg) ==
    {t \in 0 .. (cfg.tracks - 1) :
        Le(Add(CandidateStart(train, nextFree, t), train.duration),
           Num(cfg.timeHorizon))}

\* The processing order: descending weight, then ascending scheduledArrival,
\* over the trains of the call.
InProcessingOrder ==
    /\ Len(sortedTrains) = Len(runTrains)
    /\ {sortedTrains[n].id : n \in DOMAIN sortedTrains}
         = {runTrains[n].id : n \in DOMAIN runTrains}
    /\ \A m, n \in DOMAIN sortedTrains :
          m < n => \/ Weight(sortedTrains[m]) > Weight(sortedTrains[n])
                   \/ /\ Weight(sortedTrains[m]) = Weight(sortedTrains[n])
                      /\ sortedTrains[m].scheduledArrival
                           <= sortedTrains[n].scheduledArrival

\* The example of the claim: greedySchedule has returned in the baseline
\* run of the example call.
ExampleReturned ==
    /\ trains = ExampleTrains /\ config = ExampleConfig
    /\ run = "before" /\ GreedyReturned

ExampleHolds ==
    /\ \A n \in DOMAIN runTrains : runTrains[n].duration = Num(10)
    /\ greedy.assignments
         = << [trainId |-> "A", trackId |-> 0,
               actualArrival |-> Num(0), delay |-> Num(0)],
              [trainId |-> "B", trackId |-> 0,
               actualArrival |-> Num(13), delay |-> Num(8)] >>

\* The step places a train on a feasible track of smallest candidate start,
\* the lowest index among equal starts, and moves that track's next-free
\* time to start + duration + headway.
PlacedOnBestTrack ==
    LET train    == sortedTrains[next]
        a        == placed'[Len(placed')]
        feasible == FeasibleTracks(train, tracksNextFree, runConfig)
    IN  feasible # {}
          => /\ a.trainId = train.id
             /\ a.trackId \in feasible
             /\ a.actualArrival = CandidateStart(train, tracksNextFree, a.trackId)
             /\ \A t \in feasible :
                   /\ ~Lt(CandidateStart(train, tracksNextFree, t), a.actualArrival)
                   /\ CandidateStart(train, tracksNextFree, t) = a.actualArrival
                        => a.trackId <= t
             /\ tracksNextFree'[a.trackId]
                  = Add(Add(a.actualArrival, train.duration),
                        Num(runConfig.safetyHeadway))
             /\ \A t \in DOMAIN tracksNextFree :
                   t # a.trackId => tracksNextFree'[t] = tracksNextFree[t]

\* C14: scheduleGreedy processes the trains by descending priority weight,
\* then ascending scheduledArrival; whenever some track can take the train
\* within the horizon it assigns the train to the feasible track with the
\* smallest candidate start, the lowest index among equal starts, also when
\* track 0 is infeasible, and then sets that track's next-free time to
\* start + duration + headway. With one track, headway 3, A (arrival 0,
\* duration 10, high) and B (arrival 5, duration 10, medium), A starts at 0
\* and B at 13 with delay 8.
C14_GreedyChoice ==
    /\ []((pc = "greedy" => InProcessingOrder) /\ (ExampleReturned => ExampleHolds))
    /\ [][Len(placed') = Len(placed) + 1 => PlacedOnBestTrack]_vars

\* A train has just been put on track 1 because track 0, although free
\* earlier or as early, cannot take it within the horizon.
C14_Witness ==
    /\ pc = "greedy" /\ placed # <<>> /\ runConfig.tracks = 2
    /\ LET a     == placed[Len(placed)]
           train == FindTrain(runTrains, a.trainId)
       IN  /\ a.trackId = 1
           /\ Truthy(train.duration) /\ Gt(train.duration, Num(0))
           /\ 0 \notin FeasibleTracks(train, tracksNextFree, runConfig)
           /\ Le(Add(a.actualArrival, train.duration), Num(runConfig.timeHorizon))
           /\ tracksNextFree[1]
                = Add(Add(a.actualArrival, train.duration),
                      Num(runConfig.safetyHeadway))

(***************************************************************************)
(* Track ids of the two schedules                                          *)
(***************************************************************************)

\* Every trackId of the schedule lies in [0, T) and utilization has exactly
\* the keys 0..T-1, each with a value that is a number.
WithinTracks(s, T) ==
    /\ \A n \in DOMAIN s.assignments : s.assignments[n].trackId \in 0 .. (T - 1)
    /\ DOMAIN s.utilization = 0 .. (T - 1)
    /\ \A k \in DOMAIN s.utilization : ~IsNaN(s.utilization[k])

\* C15: in both schedules returned by rescheduleWithDisruption for a config
\* with tracks >= 1 and any disruption, every trackId lies in [0, T) and
\* utilization has exactly the keys 0..T-1 with numeric values, T being the
\* track count of that run: config.tracks for before, config.tracks - 1 for
\* after under a block-track disruption, config.tracks = 1 included.
\* Stated for trains with a positive speed, where it already fails.
C15_TrackIdsWithinRunTracks ==
    (AfterReturned /\ config.tracks >= 1 /\ ValidTrains(trains))
       => /\ WithinTracks(before, config.tracks)
          /\ WithinTracks(after,
                          IF IsBlockWithTrack(disruption)
                          THEN config.tracks - 1 ELSE config.tracks)

(***************************************************************************)
(* What the improver leaves alone                                          *)
(***************************************************************************)

\* Schedule s has the trains of schedule g, each on the track g gives it.
SameTrainsAndTracks(s, g) ==
    /\ Len(s.assignments) = Len(g.assignments)
    /\ \A n \in DOMAIN s.assignments :
          /\ s.assignments[n].trainId = g.assignments[n].trainId
          /\ s.assignments[n].trackId = g.assignments[n].trackId

\* The indices at which the step changes an assignment.
ChangedByStep ==
    {n \in DOMAIN assignments : schedule'.assignments[n] # schedule.assignments[n]}

\* The step is an accepted swap of the pair the scan is at: it alters
\* actualArrival and delay of the two trains of the pair and nothing else,
\* and the two are neighbours on one track in the order of the schedule the
\* swap is applied to.
SwapAltersOnlyItsPair ==
    LET a1    == trackAssignments[i + 1]
        a2    == trackAssignments[i + 2]
        order == TrackAssignments(assignments, trackId)
    IN  /\ a1.trackId = a2.trackId
        /\ {assignments[n].trainId : n \in ChangedByStep} = {a1.trainId, a2.trainId}
        /\ \E m \in 1 .. (Len(order) - 1) :
              {order[m].trainId, order[m + 1].trainId} = {a1.trainId, a2.trainId}
        /\ assignments' = schedule'.assignments

\* C16: the improver changes nothing but the start times of swapped pairs:
\* every train keeps the track greedy gave it, the returned schedule has
\* greedy's trains, and each accepted swap alters actualArrival and delay of
\* exactly the two adjacent same-track trains of that swap.
C16_OnlySwappedPairsChange ==
    /\ [](/\ GreedyReturned => SameTrainsAndTracks(schedule, greedy)
          /\ AfterReturned => SameTrainsAndTracks(after, greedy))
    /\ [][schedule'.assignments # schedule.assignments /\ pc = "pair"
            => SwapAltersOnlyItsPair]_vars

(***************************************************************************)
(* The improver on valid input                                             *)
(***************************************************************************)

\* The calls whose trains get positive durations: positive speeds over a
\* section of positive length, with a headway that is not negative.
PositiveCall ==
    /\ config.sectionLength > 0 /\ config.safetyHeadway >= 0
    /\ \A n \in DOMAIN trains : trains[n].speed > 0

\* Two trains of different priority share a track of the schedule.
MixedTrack(s, ts) ==
    \E m, n \in DOMAIN s.assignments :
        /\ s.assignments[m].trackId = s.assignments[n].trackId
        /\ Weight(FindTrain(ts, s.assignments[m].trainId))
             > Weight(FindTrain(ts, s.assignments[n].trainId))

\* C17: for every input with positive durations and a headway that is not
\* negative, scheduleOptimized returns the assignments and aggregates of
\* scheduleGreedy: the improver never replaces the schedule it was given.
\* The durations are the ones prepareTrainsData derives, positive for
\* positive speeds over a section of positive length.
C17_OptimizedEqualsGreedy ==
    PositiveCall
       => /\ pc # "start" => PositiveDurations(runTrains)
          /\ GreedyReturned => schedule = greedy
          /\ BeforeJustReturned => before = greedy
          /\ AfterReturned => after = greedy

\* A call with positive durations returned a schedule with delayed trains
\* and two priorities on one track, after the improver had scanned it.
C17_Witness ==
    /\ AfterReturned /\ PositiveCall /\ PositiveDurations(runTrains)
    /\ Len(after.assignments) = MaxTrains
    /\ Gt(after.weightedDelay, Num(0))
    /\ MixedTrack(after, runTrains)
    /\ iterations = 1

(***************************************************************************)
(* Order of a track in the greedy schedule                                 *)
(***************************************************************************)

\* On every track of schedule s the trains, ordered by actualArrival, have
\* strictly increasing start times and non-increasing priority weight, so
\* no adjacent pair meets the swap condition of line 90.
TracksInPriorityOrder(s, ts, cfg) ==
    \A t \in 0 .. (cfg.tracks - 1) :
        LET onTrack == TrackAssignments(s.assignments, t)
        IN  \A n \in 1 .. (Len(onTrack) - 1) :
                /\ Lt(onTrack[n].actualArrival, onTrack[n + 1].actualArrival)
                /\ Weight(FindTrain(ts, onTrack[n].trainId))
                     >= Weight(FindTrain(ts, onTrack[n + 1].trainId))
                /\ ~SwapWanted(onTrack[n], onTrack[n + 1], ts)

\* C18: in every greedy schedule for positive durations and a headway that
\* is not negative, on each track the trains ordered by actualArrival have
\* strictly increasing start times and non-increasing priority weight, so
\* the improver's swap condition is never met on greedy output.
C18_GreedyTracksInPriorityOrder ==
    /\ (GreedyJustReturned /\ PositiveCall)
          => TracksInPriorityOrder(greedy, runTrains, runConfig)
    /\ (pc = "pair" /\ PositiveCall /\ i < Len(trackAssignments) - 1)
          => ~SwapWanted(trackAssignments[i + 1], trackAssignments[i + 2], runTrains)

\* The improver is at a pair of a track on which greedy put a train of
\* high and, after it, a train of medium priority.
C18_Witness ==
    /\ pc = "pair" /\ PositiveCall /\ i < Len(trackAssignments) - 1
    /\ Weight(FindTrain(runTrains, trackAssignments[i + 1].trainId))
         > Weight(FindTrain(runTrains, trackAssignments[i + 2].trainId))
    /\ Len(greedy.assignments) = MaxTrains

(***************************************************************************)
(* Lower priorities do not affect higher ones                              *)
(***************************************************************************)

\* The list without its x-th train.
WithoutTrain(ts, x) ==
    [n \in 1 .. (Len(ts) - 1) |-> IF n < x THEN ts[n] ELSE ts[n + 1]]

\* Schedule s is scheduleOptimized(ts, cfg); every train of ts with a
\* weight strictly above that of some train x gets from it the placement it
\* gets from scheduleOptimized of ts without x.
HigherUnaffectedByLower(s, ts, cfg) ==
    \A x \in DOMAIN ts :
        LET other == optimizedSchedule(WithoutTrain(ts, x), cfg)
        IN  \A n \in DOMAIN ts :
                Weight(ts[n]) > Weight(ts[x])
                   => /\ Placement(s, ts[n].id) = Placement(other, ts[n].id)
                      /\ Cardinality(Placement(s, ts[n].id)) = 1

\* C19: for any train list L with positive durations and any train x of L,
\* every train with a weight strictly greater than x's receives the same
\* trackId, actualArrival and delay from scheduleOptimized(L, config) as
\* from scheduleOptimized(L without x, config).
C19_LowerNeverAffectsHigher ==
    /\ (BeforeJustReturned /\ PositiveCall)
          => HigherUnaffectedByLower(before, prepareTrainsData(trains, config), config)
    /\ (AfterReturned /\ PositiveCall /\ runConfig.tracks >= 1)
          => HigherUnaffectedByLower(after, runTrains, runConfig)

\* A train of medium priority waits behind a train of high priority on the
\* track they share in the baseline schedule.
C19_Witness ==
    /\ BeforeJustReturned /\ PositiveCall
    /\ \E m, n \in DOMAIN before.assignments :
          /\ before.assignments[m].trackId = before.assignments[n].trackId
          /\ Weight(FindTrain(prepareTrainsData(trains, config),
                              before.assignments[m].trainId))
               > Weight(FindTrain(prepareTrainsData(trains, config),
                                  before.assignments[n].trainId))
          /\ Gt(before.assignments[n].delay, Num(0))
          /\ Gt(before.assignments[n].actualArrival,
                before.assignments[m].actualArrival)

(***************************************************************************)
(* A block-track disruption that names no track                            *)
(***************************************************************************)

\* The disruption the dashboard holds after its type was switched from
\* delay to block_track: the delay's fields are kept, no trackId is set.
IsBlockWithoutTrack(d) == d.type = "block_track" /\ "trackId" \notin DOMAIN d

\* C20: a block_track disruption without a trackId reduces nothing: the
\* after run is made with the full config.tracks and the unchanged trains,
\* so after equals before.
C20_BlockWithoutTrackChangesNothing ==
    (AfterReturned /\ IsBlockWithoutTrack(disruption))
       => /\ runConfig = config
          /\ runTrains = prepareTrainsData(trains, config)
          /\ after = before

\* The disruption still carries the train id and delay of the delay it was
\* switched from, the train is in the list, and the call has returned.
C20_Witness ==
    /\ AfterReturned /\ IsBlockWithoutTrack(disruption)
    /\ "trainId" \in DOMAIN disruption /\ "delayMinutes" \in DOMAIN disruption
    /\ HasTrain(trains, disruption.trainId)
    /\ disruption.delayMinutes > 0
    /\ Len(after.assignments) >= 2

====
